---- MODULE Spec2Model ----
(***************************************************************************)
(* Model of app.py of SWOT-Automation_opportunities: the template store    *)
(* (SWOT_EXAMPLES, SWOT_PROMPTS), generate_swot_point and the Streamlit    *)
(* form that calls it.                                                     *)
(*                                                                         *)
(* A Python string is a sequence of atoms.  A fixed literal of the source  *)
(* is one atom, user text and response text are sequences of one-character *)
(* atoms, so concatenation is \o and "contains" is an infix test.          *)
(***************************************************************************)
EXTENDS Naturals, Sequences, FiniteSets, TLC

\* ------------------------------------------------------------- bounds
MaxTextLen == 2   \* longest article text
MaxRespLen == 3   \* longest response text the service answers

\* ------------------------------------------------------------- sessions
\* Streamlit runs every browser session's script in its own thread of one
\* process; a direct caller of generate_swot_point is a thread as well.
Procs == {1, 2}

\* ------------------------------------------------------------- strings
Whitespace == {" ", "\n"}
TextChars  == {" ", "x"}
RespChars  == {" ", "\n", "r"}

SeqsUpTo(S, n) == UNION {[1..k -> S] : k \in 0..n}

Texts     == SeqsUpTo(TextChars, MaxTextLen)
Responses == SeqsUpTo(RespChars, MaxRespLen)

RECURSIVE LStrip(_)
LStrip(s) == IF s # <<>> /\ Head(s) \in Whitespace THEN LStrip(Tail(s)) ELSE s

RECURSIVE RStrip(_)
RStrip(s) ==
    IF s # <<>> /\ s[Len(s)] \in Whitespace
    THEN RStrip(SubSeq(s, 1, Len(s) - 1))
    ELSE s

\* str.strip(): leading and trailing whitespace removed
\* faulty variant: only the leading whitespace goes
StripLeftOnly(s) == LStrip(s)
Strip(s) == RStrip(LStrip(s))

\* Python truthiness of a str / list / None; None is modelled as <<>>
PyNone == <<>>
Truthy(v) == v # <<>>

\* sep.join(list)
RECURSIVE JoinFrom(_, _, _)
JoinFrom(sep, list, i) ==
    IF i > Len(list) THEN <<>>
    ELSE IF i = Len(list) THEN list[i]
    ELSE list[i] \o sep \o JoinFrom(sep, list, i + 1)

Join(sep, list) == JoinFrom(sep, list, 1)

\* ------------------------------------------------------------- template store
SWOT_EXAMPLES ==
    [c \in {"Opportunity", "Weakness"} |->
        IF c = "Opportunity"
        THEN << <<"\n", "example:Elevance", "\n">>, <<"\n", "example:AT&T Wi-Fi 7", "\n">> >>
        ELSE << <<"\n", "example:BASF", "\n">>, <<"\n", "example:AT&T lawsuit", "\n">> >>]

SWOT_PROMPTS ==
    [c \in {"Opportunity", "Weakness"} |->
        IF c = "Opportunity"
        THEN <<"\n    ", "formula:OPPORTUNITY 5-step", "\n    ">>
        ELSE <<"\n    ", "formula:WEAKNESS 3-part", "\n    ">>]

\* dict.get(key): the value, or None
DictGet(d, k) == IF k \in DOMAIN d THEN d[k] ELSE PyNone


\* `not prompt_formula or not example_list`
TemplateMissing(swot_category) ==
    \/ ~Truthy(DictGet(SWOT_PROMPTS, swot_category))
    \/ ~Truthy(DictGet(SWOT_EXAMPLES, swot_category))

\* ------------------------------------------------------------- prompt assembly
ExampleDelimiter == <<"\n\n---\n\n">>

\* faulty variant: the examples are joined in reverse order
FormattedExamplesShuffled(example_list) ==
    Join(ExampleDelimiter, [i \in 1..Len(example_list) |->
                               example_list[Len(example_list) + 1 - i]])
FormattedExamples(example_list) == Join(ExampleDelimiter, example_list)

PromptOpen    == <<"\n    ">>
PromptMiddle  == <<"\n\n    **You must write the entire output as a single, flowing paragraph. ...**\n\n    Here are several perfect examples to mimic. Learn the pattern from all of them:\n    ---\n    ">>
PromptLabel   == <<"\n    ---\n\n    **Press Release Text:**\n    ---\n    ">>
PromptClose   == <<"\n    ---\n    ">>

\* faulty variant: the text loses its last character
FinalPromptTruncating(prompt_formula, formatted_examples, text) ==
    PromptOpen \o prompt_formula \o PromptMiddle \o formatted_examples
        \o PromptLabel \o SubSeq(text, 1, Len(text) - 1) \o PromptClose
FinalPrompt(prompt_formula, formatted_examples, text) ==
    PromptOpen \o prompt_formula \o PromptMiddle \o formatted_examples
        \o PromptLabel \o text \o PromptClose

\* the prompt generate_swot_point builds for a category that has a template
AssemblePrompt(text, swot_category) ==
    FinalPrompt(SWOT_PROMPTS[swot_category],
                FormattedExamples(SWOT_EXAMPLES[swot_category]), text)

\* ------------------------------------------------------------- faults and results
\* what the google.generativeai calls can raise; {e} formats as e.msg
Faults ==
    { [type |-> "PermissionDenied", msg |-> "API key not valid"],
      [type |-> "ValueError",       msg |-> "response was blocked"] }
NoFault == [type |-> "none", msg |-> ""]

\* `except Exception`: every fault class above derives from Exception
\* faulty variant: `except ValueError`
ExceptOnlyValueError(e) == e.type = "ValueError"
ExceptException(e) == e.type \in {"PermissionDenied", "ValueError"}

ConfigErrorString(e) ==
    <<"Error configuring the AI model: ", e.msg, ". Please check your API key.">>
MissingTemplateString(swot_category) ==
    <<"Error: No prompt or examples found for SWOT category '", swot_category, "'.">>
AnalysisErrorString(e) == <<"An error occurred during AI analysis: ", e.msg>>

NotYet      == [kind |-> "none",     value |-> <<>>]
Returned(s) == [kind |-> "returned", value |-> s]
Raised(e)   == [kind |-> "raised",   value |-> <<e.msg>>]

\* the two try/except blocks
SetupExcept(e) == IF ExceptException(e) THEN Returned(ConfigErrorString(e)) ELSE Raised(e)
GenerateExcept(e) ==
    IF ExceptException(e) THEN Returned(AnalysisErrorString(e)) ELSE Raised(e)

\* ------------------------------------------------------------- inputs
Categories    == {"Opportunity", "Weakness", "Threat"}   \* what a direct caller may pass
\* faulty variant: the select box offers a category without a template
SelectOptionsWithThreat == {"Opportunity", "Weakness", "Threat"}
SelectOptions == {"Opportunity", "Weakness"}              \* st.selectbox options
CompanyNames  == {<<>>, <<" ">>, <<"x">>}                  \* empty, blank, not blank
Keys          == {"k1", "k2"}
FormKeys      == {""} \cup Keys                           \* None and "" are both falsy
NoClient      == "<unbound>"

\* ------------------------------------------------------------- state
VARIABLES
    pc,             \* per thread: where it stands in the script / in generate_swot_point
    origin,         \* per thread: "form" (button handler) or "direct" caller
    text,           \* generate_swot_point argument
    swot_category,  \* generate_swot_point argument
    api_key,        \* generate_swot_point argument
    model,          \* local `model`: the credential its client is bound to, or NoClient
    final_prompt,   \* local `final_prompt`
    ret,            \* how the call ended: NotYet, Returned(string) or Raised(e)
    setup_exc,      \* the fault raised inside the first try block, or NoFault
    gen,            \* what generate_content did: nothing yet, a response text, a fault
    sent,           \* the submissions this call made to the service: <<[key, prompt]>>
    client_config,  \* google.generativeai's process-wide configuration (the api key)
    form,           \* the widget values of the script run
    shown           \* what the script run put on the page

vars == <<pc, origin, text, swot_category, api_key, model, final_prompt, ret,
          setup_exc, gen, sent, client_config, form, shown>>

NoGen   == [kind |-> "none", text |-> <<>>, exc |-> NoFault]
NoForm  == [secret |-> "", typed |-> "", company_name |-> <<>>,
            article_text |-> <<>>, clicked |-> FALSE]

\* a thread that is not running the script and holds nothing of an earlier run
Fresh ==
    /\ pc            = [p \in Procs |-> "idle"]
    /\ origin        = [p \in Procs |-> "none"]
    /\ text          = [p \in Procs |-> <<>>]
    /\ swot_category = [p \in Procs |-> "Opportunity"]
    /\ api_key       = [p \in Procs |-> ""]
    /\ model         = [p \in Procs |-> NoClient]
    /\ final_prompt  = [p \in Procs |-> <<>>]
    /\ ret           = [p \in Procs |-> NotYet]
    /\ setup_exc     = [p \in Procs |-> NoFault]
    /\ gen           = [p \in Procs |-> NoGen]
    /\ sent          = [p \in Procs |-> <<>>]
    /\ form          = [p \in Procs |-> NoForm]
    /\ shown         = [p \in Procs |-> {}]

Init == Fresh /\ client_config = ""

\* the single-threaded use of section 5: a run starts when no other run is under way
OthersIdle(p) == \A q \in Procs \ {p} : pc[q] = "idle"

\* ------------------------------------------------------------- entering generate_swot_point
Enter(p, who, t, c, k) ==
    /\ pc'            = [pc EXCEPT ![p] = "configure"]
    /\ origin'        = [origin EXCEPT ![p] = who]
    /\ text'          = [text EXCEPT ![p] = t]
    /\ swot_category' = [swot_category EXCEPT ![p] = c]
    /\ api_key'       = [api_key EXCEPT ![p] = k]
    /\ UNCHANGED <<model, final_prompt, ret, setup_exc, gen, sent, client_config>>

\* a caller other than the form (a test, another module)
Call(p) ==
    /\ pc[p] = "idle"
    /\ OthersIdle(p)
    /\ \E t \in Texts, c \in Categories, k \in Keys : Enter(p, "direct", t, c, k)
    /\ UNCHANGED <<form, shown>>

\* ------------------------------------------------------------- the Streamlit script
\* lines 116-120: secrets / environment first, the text input only when that is falsy
FormApiKey(f) == IF f.secret # "" THEN f.secret ELSE f.typed

\* lines 118-153 up to the call: what the run shows, and whether it calls the core
\* faulty variant: the article text is not checked
DecisionNoArticleCheck(f) ==
    IF FormApiKey(f) = "" THEN "no_key"
    ELSE IF ~f.clicked THEN "wait"
    ELSE IF Strip(f.company_name) = <<>> THEN "no_company"
    ELSE "call"
Decision(f) ==
    IF FormApiKey(f) = "" THEN "no_key"
    ELSE IF ~f.clicked THEN "wait"
    ELSE IF Strip(f.company_name) = <<>> THEN "no_company"
    ELSE IF Strip(f.article_text) = <<>> THEN "no_article"
    ELSE "call"

Page(f) ==
    (IF f.secret = "" THEN {"warning:Google API Key not found"} ELSE {})
    \cup (CASE Decision(f) = "no_key"     -> {"error:Please provide a Google API Key"}
            [] Decision(f) = "wait"       -> {"success:API Key loaded"}
            [] Decision(f) = "no_company" -> {"success:API Key loaded",
                                              "error:Please enter a company name."}
            [] Decision(f) = "no_article" -> {"success:API Key loaded",
                                              "error:Please paste the article text."}
            [] OTHER                      -> {"success:API Key loaded"})

\* the key input exists only without a secret (line 118), every other widget only
\* with a key (line 122): a widget that is not on the page keeps its empty value
WidgetsExist(f) ==
    /\ f.secret # "" => f.typed = ""
    /\ FormApiKey(f) = "" => f.company_name = <<>> /\ f.article_text = <<>> /\ ~f.clicked

FormRun(p) ==
    /\ pc[p] = "idle"
    /\ OthersIdle(p)
    /\ \E secret \in FormKeys, typed \in FormKeys, company_name \in CompanyNames,
          article_text \in Texts, clicked \in BOOLEAN, c \in SelectOptions :
          LET f == [secret |-> secret, typed |-> typed, company_name |-> company_name,
                    article_text |-> article_text, clicked |-> clicked]
          IN  /\ WidgetsExist(f)
              /\ form'  = [form EXCEPT ![p] = f]
              /\ shown' = [shown EXCEPT ![p] = Page(f)]
              /\ IF Decision(f) = "call"
                 THEN Enter(p, "form", article_text, c, FormApiKey(f))
                 ELSE /\ pc' = [pc EXCEPT ![p] = "rendered"]
                      /\ origin' = [origin EXCEPT ![p] = "form"]
                      /\ swot_category' = [swot_category EXCEPT ![p] = c]
                      /\ UNCHANGED <<text, api_key, model, final_prompt, ret,
                                     setup_exc, gen, sent, client_config>>

\* ------------------------------------------------------------- generate_swot_point
\* a fault in the first try block ends the call (lines 74-75)
SetupFails(p, e) ==
    /\ setup_exc' = [setup_exc EXCEPT ![p] = e]
    /\ ret'       = [ret EXCEPT ![p] = SetupExcept(e)]
    /\ pc'        = [pc EXCEPT ![p] = "done"]

\* faulty variant: the template test comes before model setup
ConfigureLookupFirst(p) ==
    /\ pc[p] = "configure"
    /\ IF TemplateMissing(swot_category[p])
       THEN /\ ret' = [ret EXCEPT ![p] = Returned(MissingTemplateString(swot_category[p]))]
            /\ pc'  = [pc EXCEPT ![p] = "done"]
            /\ UNCHANGED <<setup_exc, client_config>>
       ELSE \/ /\ client_config' = api_key[p]
               /\ pc' = [pc EXCEPT ![p] = "make_model"]
               /\ UNCHANGED <<setup_exc, ret>>
            \/ /\ \E e \in Faults : SetupFails(p, e)
               /\ UNCHANGED client_config
    /\ UNCHANGED <<origin, text, swot_category, api_key, model, final_prompt, gen,
                   sent, form, shown>>

\* line 72: genai.configure(api_key=api_key) sets the library's process-wide
\* configuration; it returns nothing the function keeps
Configure(p) ==
    /\ pc[p] = "configure"
    /\ \/ /\ client_config' = api_key[p]
          /\ pc' = [pc EXCEPT ![p] = "make_model"]
          /\ UNCHANGED <<setup_exc, ret>>
       \/ /\ \E e \in Faults : SetupFails(p, e)
          /\ UNCHANGED client_config
    /\ UNCHANGED <<origin, text, swot_category, api_key, model, final_prompt, gen,
                   sent, form, shown>>

\* line 73: model = genai.GenerativeModel('gemini-1.5-flash').  The constructor is
\* given no credential: the model's client takes it from the process-wide
\* configuration, when the model is built or when it is first used.
MakeModel(p) ==
    /\ pc[p] = "make_model"
    /\ \/ /\ \E bound \in {client_config, NoClient} :
                model' = [model EXCEPT ![p] = bound]
          /\ pc' = [pc EXCEPT ![p] = "lookup"]
          /\ UNCHANGED <<setup_exc, ret>>
       \/ /\ \E e \in Faults : SetupFails(p, e)
          /\ UNCHANGED model
    /\ UNCHANGED <<origin, text, swot_category, api_key, final_prompt, gen, sent,
                   client_config, form, shown>>

\* faulty variant: SWOT_PROMPTS[swot_category] in place of .get, a KeyError
\* leaves the call
LookupSubscript(p) ==
    /\ pc[p] = "lookup"
    /\ IF swot_category[p] \notin DOMAIN SWOT_PROMPTS
       THEN /\ ret' = [ret EXCEPT ![p] = Raised([type |-> "KeyError",
                                                 msg |-> swot_category[p]])]
            /\ pc'  = [pc EXCEPT ![p] = "done"]
            /\ UNCHANGED final_prompt
       ELSE /\ final_prompt' =
                  [final_prompt EXCEPT ![p] =
                      FinalPrompt(SWOT_PROMPTS[swot_category[p]],
                                  FormattedExamples(SWOT_EXAMPLES[swot_category[p]]),
                                  text[p])]
            /\ pc' = [pc EXCEPT ![p] = "generate"]
            /\ UNCHANGED ret
    /\ UNCHANGED <<origin, text, swot_category, api_key, model, setup_exc, gen, sent,
                   client_config, form, shown>>

\* lines 77-99: template lookup, the missing-template return, the prompt
Lookup(p) ==
    /\ pc[p] = "lookup"
    /\ IF TemplateMissing(swot_category[p])
       THEN /\ ret' = [ret EXCEPT ![p] = Returned(MissingTemplateString(swot_category[p]))]
            /\ pc'  = [pc EXCEPT ![p] = "done"]
            /\ UNCHANGED final_prompt
       ELSE /\ final_prompt' =
                  [final_prompt EXCEPT ![p] =
                      FinalPrompt(DictGet(SWOT_PROMPTS, swot_category[p]),
                                  FormattedExamples(DictGet(SWOT_EXAMPLES, swot_category[p])),
                                  text[p])]
            /\ pc' = [pc EXCEPT ![p] = "generate"]
            /\ UNCHANGED ret
    /\ UNCHANGED <<origin, text, swot_category, api_key, model, setup_exc, gen, sent,
                   client_config, form, shown>>

\* line 102, the request: model.generate_content(final_prompt) goes out under the
\* credential the model's client holds
ClientKey(p) == IF model[p] = NoClient THEN client_config ELSE model[p]

Submit(p) ==
    /\ pc[p] = "generate"
    /\ sent'  = [sent EXCEPT ![p] = Append(@, [key |-> ClientKey(p),
                                                prompt |-> final_prompt[p]])]
    /\ model' = [model EXCEPT ![p] = ClientKey(p)]
    /\ pc'    = [pc EXCEPT ![p] = "waiting"]
    /\ UNCHANGED <<origin, text, swot_category, api_key, final_prompt, ret, setup_exc,
                   gen, client_config, form, shown>>

\* lines 102-105, the answer: a response whose text is returned stripped, or a
\* fault (from the call or from reading response.text) turned into a string
\* faulty variant: a failed generation is submitted a second time
RespondAndRetry(p) ==
    /\ pc[p] = "waiting"
    /\ \/ \E r \in Responses :
            /\ gen' = [gen EXCEPT ![p] = [kind |-> "text", text |-> r, exc |-> NoFault]]
            /\ ret' = [ret EXCEPT ![p] = Returned(Strip(r))]
            /\ pc'  = [pc EXCEPT ![p] = "done"]
       \/ \E e \in Faults :
            /\ gen' = [gen EXCEPT ![p] = [kind |-> "fault", text |-> <<>>, exc |-> e]]
            /\ IF Len(sent[p]) < 2
               THEN /\ ret' = ret
                    /\ pc'  = [pc EXCEPT ![p] = "generate"]
               ELSE /\ ret' = [ret EXCEPT ![p] = GenerateExcept(e)]
                    /\ pc'  = [pc EXCEPT ![p] = "done"]
    /\ UNCHANGED <<origin, text, swot_category, api_key, model, final_prompt, setup_exc,
                   sent, client_config, form, shown>>
Respond(p) ==
    /\ pc[p] = "waiting"
    /\ \/ \E r \in Responses :
            /\ gen' = [gen EXCEPT ![p] = [kind |-> "text", text |-> r, exc |-> NoFault]]
            /\ ret' = [ret EXCEPT ![p] = Returned(Strip(r))]
       \/ \E e \in Faults :
            /\ gen' = [gen EXCEPT ![p] = [kind |-> "fault", text |-> <<>>, exc |-> e]]
            /\ ret' = [ret EXCEPT ![p] = GenerateExcept(e)]
    /\ pc' = [pc EXCEPT ![p] = "done"]
    /\ UNCHANGED <<origin, text, swot_category, api_key, model, final_prompt, setup_exc,
                   sent, client_config, form, shown>>

\* lines 149-150: the form shows what the call returned
Display(p) ==
    /\ pc[p] = "done"
    /\ origin[p] = "form"
    /\ ret[p].kind = "returned"
    /\ shown' = [shown EXCEPT ![p] = @ \cup {"header:3. Generated Paragraph", "paragraph"}]
    /\ pc'    = [pc EXCEPT ![p] = "rendered"]
    /\ UNCHANGED <<origin, text, swot_category, api_key, model, final_prompt, ret,
                   setup_exc, gen, sent, client_config, form>>

\* the run is over: its locals are gone, the library's configuration stays
Finish(p) ==
    /\ \/ pc[p] = "rendered"
       \/ pc[p] = "done" /\ origin[p] = "direct"
    /\ pc'            = [pc EXCEPT ![p] = "idle"]
    /\ origin'        = [origin EXCEPT ![p] = "none"]
    /\ text'          = [text EXCEPT ![p] = <<>>]
    /\ swot_category' = [swot_category EXCEPT ![p] = "Opportunity"]
    /\ api_key'       = [api_key EXCEPT ![p] = ""]
    /\ model'         = [model EXCEPT ![p] = NoClient]
    /\ final_prompt'  = [final_prompt EXCEPT ![p] = <<>>]
    /\ ret'           = [ret EXCEPT ![p] = NotYet]
    /\ setup_exc'     = [setup_exc EXCEPT ![p] = NoFault]
    /\ gen'           = [gen EXCEPT ![p] = NoGen]
    /\ sent'          = [sent EXCEPT ![p] = <<>>]
    /\ form'          = [form EXCEPT ![p] = NoForm]
    /\ shown'         = [shown EXCEPT ![p] = {}]
    /\ UNCHANGED client_config

Next ==
    \E p \in Procs :
        \/ Call(p)
        \/ FormRun(p)
        \/ Configure(p)
        \/ MakeModel(p)
        \/ Lookup(p)
        \/ Submit(p)
        \/ Respond(p)
        \/ Display(p)
        \/ Finish(p)

Spec == Init /\ [][Next]_vars

\* ------------------------------------------------------------- two sessions at once
\* Two threads of the one process call generate_swot_point without waiting for
\* each other (two browser tabs): the steps of the two calls interleave freely.
ConcTexts == {<<>>, <<"x">>}

CallConcurrently(p) ==
    /\ pc[p] = "idle"
    /\ \E t \in ConcTexts, c \in Categories, k \in Keys : Enter(p, "direct", t, c, k)
    /\ UNCHANGED <<form, shown>>

NextConc ==
    \E p \in Procs :
        \/ CallConcurrently(p)
        \/ Configure(p)
        \/ MakeModel(p)
        \/ Lookup(p)
        \/ Submit(p)
        \/ Respond(p)

SpecConc == Init /\ [][NextConc]_vars

\* ------------------------------------------------------------- vocabulary of the properties
\* s holds sub at position i
At(s, i, sub) == i >= 1 /\ i + Len(sub) - 1 <= Len(s) /\ SubSeq(s, i, i + Len(sub) - 1) = sub
Contains(s, sub) == \E i \in 1..(Len(s) + 1) : At(s, i, sub)

Ended(p)       == ret[p].kind # "none"
InCore(p)      == pc[p] \in {"configure", "make_model", "lookup", "generate", "waiting", "done"}
SetupFailed(p) == setup_exc[p] # NoFault
NoEntry(c)     == c \notin DOMAIN SWOT_PROMPTS /\ c \notin DOMAIN SWOT_EXAMPLES
AbsentOrEmpty(c) ==
    \/ c \notin DOMAIN SWOT_PROMPTS
    \/ c \notin DOMAIN SWOT_EXAMPLES
    \/ Len(SWOT_PROMPTS[c]) = 0
    \/ Len(SWOT_EXAMPLES[c]) = 0

SaysNoTemplate(p) ==
    /\ ret[p].kind = "returned"
    /\ Contains(ret[p].value, <<swot_category[p]>>)
    /\ Contains(ret[p].value, <<"Error: No prompt or examples found for SWOT category '">>)

\* ------------------------------------------------------------- C1
\* C1 as stated: whatever the credential, a call whose category has no entry in
\* the template store returns the missing-template string naming the category,
\* and raises nothing.
C1_MissingTemplateForEveryCredential ==
    \A p \in Procs : Ended(p) /\ NoEntry(swot_category[p]) => SaysNoTemplate(p)

\* C1 amended: a call whose category has no entry in the template store raises
\* nothing and returns a string; when model setup with the credential succeeded
\* the string names the category and says no prompt/examples were found for it,
\* and when model setup failed it is the configuration-error string instead.
C1_MissingTemplateAfterSetup ==
    \A p \in Procs :
        Ended(p) /\ NoEntry(swot_category[p]) =>
            /\ ret[p].kind = "returned"
            /\ ~SetupFailed(p) => SaysNoTemplate(p)
            /\ SetupFailed(p) =>
                   /\ Contains(ret[p].value, <<"Error configuring the AI model: ">>)
                   /\ ~Contains(ret[p].value, <<swot_category[p]>>)

C1_Witness ==
    \E p \in Procs :
        /\ pc[p] = "done"
        /\ swot_category[p] = "Threat"
        /\ ~SetupFailed(p)
        /\ ret[p] = Returned(<<"Error: No prompt or examples found for SWOT category '",
                               "Threat", "'.">>)

\* ------------------------------------------------------------- C2
\* C2: a fault of the external service, at model setup or during generation,
\* never leaves the call as an exception: the call returns a string that
\* describes the failure and includes the fault's message.
C2_ServiceFaultsBecomeStrings ==
    \A p \in Procs :
        /\ ret[p].kind # "raised"
        /\ SetupFailed(p) =>
              /\ pc[p] \in {"done", "rendered"}
              /\ ret[p].kind = "returned"
              /\ At(ret[p].value, 1, <<"Error configuring the AI model: ">>)
              /\ Contains(ret[p].value, <<setup_exc[p].msg>>)
        /\ gen[p].kind = "fault" =>
              /\ pc[p] \in {"done", "rendered"}
              /\ ret[p].kind = "returned"
              /\ At(ret[p].value, 1, <<"An error occurred during AI analysis: ">>)
              /\ Contains(ret[p].value, <<gen[p].exc.msg>>)

C2_Witness ==
    \E p \in Procs :
        /\ pc[p] = "done"
        /\ gen[p].kind = "fault"
        /\ gen[p].exc.type = "PermissionDenied"
        /\ ret[p] = Returned(<<"An error occurred during AI analysis: ", "API key not valid">>)

\* ------------------------------------------------------------- C3
\* C3: two concurrent calls are independent: every submission a call makes goes
\* out under that call's own credential with that call's own prompt, and the
\* call returns the (stripped) answer to its own submission.
C3_ConcurrentCallsIndependent ==
    \A p \in Procs :
        /\ \A n \in 1..Len(sent[p]) :
              /\ sent[p][n].key = api_key[p]
              /\ sent[p][n].prompt = AssemblePrompt(text[p], swot_category[p])
        /\ gen[p].kind = "text" => ret[p] = Returned(Strip(gen[p].text))

\* ------------------------------------------------------------- C4
\* v is r without its leading and trailing whitespace, nothing else changed
IsTrimOf(v, r) ==
    \E i \in 0..Len(r), j \in 0..Len(r) :
        /\ i + j <= Len(r)
        /\ \A n \in 1..i : r[n] \in Whitespace
        /\ \A n \in (Len(r) - j + 1)..Len(r) : r[n] \in Whitespace
        /\ v = SubSeq(r, i + 1, Len(r) - j)
        /\ v # <<>> => v[1] \notin Whitespace /\ v[Len(v)] \notin Whitespace

\* C4: when the category has a template and the service answers a response
\* text, the call returns that text without its leading and trailing whitespace
\* and otherwise unchanged; a text with no surrounding whitespace comes back as is.
C4_ReturnsTrimmedResponse ==
    \A p \in Procs :
        gen[p].kind = "text" =>
            /\ ret[p].kind = "returned"
            /\ IsTrimOf(ret[p].value, gen[p].text)
            /\ (\/ gen[p].text = <<>>
                \/ gen[p].text[1] \in Whitespace
                \/ gen[p].text[Len(gen[p].text)] \in Whitespace
                \/ ret[p].value = gen[p].text)

C4_Witness ==
    \E p \in Procs :
        /\ pc[p] = "done"
        /\ gen[p].kind = "text"
        /\ gen[p].text = <<" ", "r", "\n">>
        /\ ret[p] = Returned(<<"r">>)

\* ------------------------------------------------------------- C5
\* the text sits between the label line that opens its block and the delimiter
\* line that closes it
InOrder(prompt, formula, block, t) ==
    \E i \in 1..Len(prompt) :
        /\ At(prompt, i, formula)
        /\ \E j \in (i + Len(formula))..Len(prompt) :
              /\ At(prompt, j, block)
              /\ \E k \in (j + Len(block) + 1)..Len(prompt) :
                    /\ At(prompt, k - 1,
                          <<"\n    ---\n\n    **Press Release Text:**\n    ---\n    ">>)
                    /\ At(prompt, k, t)
                    /\ At(prompt, k + Len(t), <<"\n    ---\n    ">>)
                    /\ k + Len(t) = Len(prompt)

\* C5: for a recognized category and any source text, the submitted prompt holds
\* the category's formula, then the examples block, then the source-text block,
\* and the source text stands in its block verbatim and whole.
C5_PromptOrderAndVerbatimText ==
    \A p \in Procs :
        \A n \in 1..Len(sent[p]) :
            InOrder(sent[p][n].prompt,
                    SWOT_PROMPTS[swot_category[p]],
                    Join(<<"\n\n---\n\n">>, SWOT_EXAMPLES[swot_category[p]]),
                    text[p])

C5_Witness ==
    \E p \in Procs :
        /\ Len(sent[p]) = 1
        /\ swot_category[p] = "Weakness"
        /\ text[p] = <<"x", " ">>
        /\ Contains(sent[p][1].prompt, <<"\n    ---\n\n    **Press Release Text:**\n    ---\n    ", "x", " ", "\n    ---\n    ">>)

\* ------------------------------------------------------------- C6
\* where example i starts in a block that joins the examples with delimiter d
RECURSIVE Offset(_, _, _)
Offset(ex, d, i) == IF i = 1 THEN 1 ELSE Offset(ex, d, i - 1) + Len(ex[i - 1]) + Len(d)

IsJoined(block, ex, d) ==
    /\ Len(ex) >= 1
    /\ Len(block) = Offset(ex, d, Len(ex)) + Len(ex[Len(ex)]) - 1
    /\ \A i \in 1..Len(ex) :
          /\ At(block, Offset(ex, d, i), ex[i])
          /\ i < Len(ex) => At(block, Offset(ex, d, i) + Len(ex[i]), d)

\* the part of a prompt between the line that opens the examples and the line
\* that closes them (each of the two occurs once in a prompt)
ExamplesRegion(prompt) ==
    LET a == CHOOSE i \in 1..Len(prompt) : prompt[i] = PromptMiddle[1]
        b == CHOOSE i \in 1..Len(prompt) : prompt[i] = PromptLabel[1]
    IN  SubSeq(prompt, a + 1, b - 1)

\* C6: the examples block of a submitted prompt is the category's stored
\* examples in stored order, each as often as stored, with the delimiter between
\* each two consecutive ones and nowhere else.
C6_ExamplesJoinedInOrder ==
    \A p \in Procs :
        \A n \in 1..Len(sent[p]) :
            IsJoined(ExamplesRegion(sent[p][n].prompt),
                     SWOT_EXAMPLES[swot_category[p]], <<"\n\n---\n\n">>)

C6_Witness ==
    \E p \in Procs :
        /\ Len(sent[p]) = 1
        /\ swot_category[p] = "Opportunity"
        /\ ExamplesRegion(sent[p][1].prompt) =
              <<"\n", "example:Elevance", "\n", "\n\n---\n\n",
                "\n", "example:AT&T Wi-Fi 7", "\n">>

\* ------------------------------------------------------------- C7
\* C7: every category the select box offers has a template with a non-empty
\* formula and a non-empty list of (non-empty) examples, and a call made from
\* the form never ends in the missing-template string.
C7_FormCategoriesHaveTemplates ==
    /\ \A c \in SelectOptions :
          /\ c \in DOMAIN SWOT_PROMPTS /\ Len(SWOT_PROMPTS[c]) > 0
          /\ c \in DOMAIN SWOT_EXAMPLES /\ Len(SWOT_EXAMPLES[c]) > 0
          /\ \A i \in 1..Len(SWOT_EXAMPLES[c]) : Len(SWOT_EXAMPLES[c][i]) > 0
    /\ \A p \in Procs :
          origin[p] = "form" =>
              /\ swot_category[p] \in DOMAIN SWOT_PROMPTS \cap DOMAIN SWOT_EXAMPLES
              /\ Ended(p) =>
                    ~Contains(ret[p].value,
                              <<"Error: No prompt or examples found for SWOT category '">>)

C7_Witness ==
    \E p \in Procs :
        /\ origin[p] = "form"
        /\ pc[p] = "rendered"
        /\ swot_category[p] = "Weakness"
        /\ gen[p].kind = "text"
        /\ ret[p] = Returned(<<"r">>)
        /\ "paragraph" \in shown[p]

\* ------------------------------------------------------------- C8
Blank(t) == \A n \in 1..Len(t) : t[n] \in Whitespace
ErrorShown(p) ==
    \E m \in {"error:Please paste the article text.", "error:Please enter a company name.",
              "error:Please provide a Google API Key"} : m \in shown[p]
CoreEntered(p) == InCore(p) \/ Ended(p) \/ Len(sent[p]) > 0

\* C8: a run of the form enters generate_swot_point only with a non-empty
\* credential, a category of the select box and an article text that is not
\* blank; a click on the button with a blank article text shows an error message
\* and does not enter generate_swot_point.
C8_FormRejectsBadInput ==
    \A p \in Procs :
        origin[p] = "form" =>
            /\ CoreEntered(p) =>
                  /\ api_key[p] # ""
                  /\ api_key[p] = FormApiKey(form[p])
                  /\ swot_category[p] \in SelectOptions
                  /\ text[p] = form[p].article_text
                  /\ ~Blank(text[p])
            /\ Blank(form[p].article_text) => ~CoreEntered(p)
            /\ form[p].clicked /\ Blank(form[p].article_text) => ErrorShown(p)

C8_Witness ==
    \E p \in Procs :
        /\ origin[p] = "form"
        /\ pc[p] = "rendered"
        /\ form[p].clicked
        /\ form[p].company_name = <<"x">>
        /\ form[p].article_text = <<" ", " ">>
        /\ "error:Please paste the article text." \in shown[p]
        /\ ~CoreEntered(p)

\* ------------------------------------------------------------- C9
\* C9: no retry.  A call submits at most one prompt; a call that has ended has
\* submitted exactly one when model setup succeeded and the category has a
\* template, and none otherwise; after a generation fault the call has ended
\* with its single submission.
C9_AtMostOneSubmission ==
    \A p \in Procs :
        /\ Len(sent[p]) <= 1
        /\ Ended(p) =>
              Len(sent[p]) = (IF ~SetupFailed(p) /\ ~AbsentOrEmpty(swot_category[p])
                              THEN 1 ELSE 0)
        /\ gen[p].kind = "fault" =>
              /\ Ended(p)
              /\ pc[p] \in {"done", "rendered"}
              /\ Len(sent[p]) = 1

C9_Witness ==
    \E p \in Procs :
        /\ pc[p] = "done"
        /\ gen[p].kind = "fault"
        /\ Len(sent[p]) = 1
        /\ ret[p].kind = "returned"

\* ------------------------------------------------------------- C10
\* C10: a call ends in one of four outcomes by fixed precedence: the
\* configuration-error string when model setup failed (whatever the category, with
\* no prompt built and nothing submitted); else, model setup having been carried
\* out with the credential, the missing-template string when the category's
\* formula or example list is absent or empty; else the
\* analysis-error string when generation failed; else the trimmed response text.
C10_OutcomePrecedence ==
    \A p \in Procs :
        Ended(p) =>
            /\ ret[p].kind = "returned"
            /\ IF SetupFailed(p)
               THEN /\ ret[p].value = <<"Error configuring the AI model: ", setup_exc[p].msg,
                                        ". Please check your API key.">>
                    /\ final_prompt[p] = <<>>
                    /\ sent[p] = <<>>
                    /\ gen[p].kind = "none"
               ELSE IF AbsentOrEmpty(swot_category[p])
               THEN /\ ret[p].value = <<"Error: No prompt or examples found for SWOT category '",
                                        swot_category[p], "'.">>
                    /\ client_config = api_key[p]   \* model setup came first, and succeeded
                    /\ sent[p] = <<>>
               ELSE IF gen[p].kind = "fault"
               THEN ret[p].value = <<"An error occurred during AI analysis: ", gen[p].exc.msg>>
               ELSE gen[p].kind = "text" /\ IsTrimOf(ret[p].value, gen[p].text)

\* model setup fails for a category without a template: the configuration error wins
C10_Witness ==
    \E p \in Procs :
        /\ pc[p] = "done"
        /\ swot_category[p] = "Threat"
        /\ SetupFailed(p)
        /\ ret[p] = Returned(<<"Error configuring the AI model: ", setup_exc[p].msg,
                               ". Please check your API key.">>)

====
